---------------------------- MODULE Spec2Model ----------------------------
(***************************************************************************)
(* Fixture generator (generate_input.py) and order verifier                *)
(* (verify_sort.py) of concurrency-sort.  The two programs share one file  *)
(* of fixed 100-byte records: a 4-byte big-endian key followed by 96 bytes *)
(* of payload.                                                             *)
(*                                                                         *)
(* A behaviour is: a file already on disk, at most one run of the          *)
(* generator on it, then at most one run of the verifier on the result.    *)
(* Each loop iteration of either program is one step.                      *)
(***************************************************************************)
EXTENDS Integers, Sequences, FiniteSets, TLC

VARIABLES
    file,          \* the bytes of the file on disk
    argv,          \* generator: sys.argv
    pc,            \* generator: position of the process
    num_records,   \* generator: num_records
    file_type,     \* generator: file_type
    fn,            \* generator: the generating function called, "" before
    i,             \* generator: next value of the range iterator
    key,           \* generator: key of the last iteration, <<>> when unset
    data,          \* generator: data of the last iteration
    rng,           \* generator: state of the module-level random generator
    gout,          \* generator: lines printed
    verifier       \* verifier: the fields below, as one record

gvars == <<argv, pc, num_records, file_type, fn, i, key, data, rng, gout>>
vars == <<file, argv, pc, num_records, file_type, fn, i, key, data, rng, gout,
          verifier>>

vpc == verifier.vpc                \* position of the process
pos == verifier.pos                \* offset of the file object f
prev_key == verifier.prev_key      \* prev_key: <<>> for None, else <<k>>
record_num == verifier.record_num  \* record_num
vkey == verifier.vkey              \* key of the last decoded record
reads == verifier.reads            \* number of f.read(100) calls made
vout == verifier.vout              \* the line printed
exit_code == verifier.exit_code    \* exit status, <<>> while running

---------------------------------------------------------------------------
(* Sizes of the record format. *)
RecordSize == 100
KeySize == 4
PayloadSize == 96
DefaultNumRecords == 100

(* A byte has ByteBase values: 256 in the program, fewer here so that a    *)
(* 4-byte key fits TLC's integers and a run can pass the largest key.      *)
(* Every width is kept: a key is KeySize digits in base ByteBase, most     *)
(* significant first, and struct.pack rejects what KeySize digits cannot   *)
(* hold.  The default count is only ever used by the random policy (a type *)
(* on the command line needs a count before it), so it never meets that    *)
(* limit.                                                                  *)
ByteBase == 2
(* Records in the file found on disk before either program runs. *)
MaxRecords == 3
(* Small record counts given on the command line: 0..MaxCount. *)
MaxCount == 5
(* Seeds of the random generator: 0..NumSeeds-1. *)
NumSeeds == 2

Byte == 0 .. (ByteBase - 1)
\* 0xFFFFFFFF: the largest value KeySize bytes hold
MaxKey == ByteBase ^ KeySize - 1

Min(a, b) == IF a < b THEN a ELSE b

---------------------------------------------------------------------------
(* The record codec: struct.pack('>I', key) and struct.unpack('>I', b)[0]. *)

\* struct.pack raises struct.error outside 0 <= key <= 0xFFFFFFFF
PackOK(k) == k >= 0 /\ k <= MaxKey

PackLittleEndian(k) ==
    [j \in 1 .. KeySize |-> (k \div (ByteBase ^ (j - 1))) % ByteBase]

\* '>I': most significant byte first
Pack(k) ==
    [j \in 1 .. KeySize |-> (k \div (ByteBase ^ (KeySize - j))) % ByteBase]

RECURSIVE Unpack(_)
Unpack(b) ==
    IF b = <<>> THEN 0
    ELSE Unpack(SubSeq(b, 1, Len(b) - 1)) * ByteBase + b[Len(b)]

---------------------------------------------------------------------------
(* random: a deterministic generator with hidden state, seeded when the    *)
(* module is imported.  randint(a, b) returns a value of a..b and advances *)
(* the state.                                                              *)
Seeds == 0 .. (NumSeeds - 1)

\* the state after one draw
RngNext(s) == (s + 389) % 1024

\* the state after n draws
RngAdvance(s, n) == (s + 389 * n) % 1024

\* random.randint(a, b) drawn in state s
RandInt(s, a, b) == a + (s % (b - a + 1))

\* bytes(random.randint(0, 255) for _ in range(n)), drawn from state s on
RandBytes(s, n) ==
    [j \in 1 .. n |-> RandInt(RngAdvance(s, j - 1), 0, ByteBase - 1)]

---------------------------------------------------------------------------
(* int(s) on a command-line argument, a sequence of characters. *)
Digits == <<"0", "1", "2", "3", "4", "5", "6", "7", "8", "9">>

DigitVal(c) == (CHOOSE d \in 1 .. 10 : Digits[d] = c) - 1

IsDigit(c) == \E d \in 1 .. 10 : Digits[d] = c

Unsigned(s) == IF s # <<>> /\ s[1] \in {"-", "+"} THEN Tail(s) ELSE s

\* int() raises ValueError on anything but an optional sign and digits
IsInt(s) ==
    /\ Unsigned(s) # <<>>
    /\ \A j \in 1 .. Len(Unsigned(s)) : IsDigit(Unsigned(s)[j])

RECURSIVE DecVal(_)
DecVal(s) ==
    IF s = <<>> THEN 0
    ELSE DecVal(SubSeq(s, 1, Len(s) - 1)) * 10 + DigitVal(s[Len(s)])

IntOf(s) == IF s[1] = "-" THEN 0 - DecVal(Unsigned(s)) ELSE DecVal(Unsigned(s))

\* the decimal text of n >= 0, as typed on the command line
RECURSIVE Str(_)
Str(n) ==
    IF n < 10 THEN <<Digits[n + 1]>>
    ELSE Str(n \div 10) \o <<Digits[(n % 10) + 1]>>

---------------------------------------------------------------------------
(* The file found on disk before either program runs: any bytes.  Whole    *)
(* records with chosen key bytes, then a fragment shorter than a record.   *)
KeyBytes ==
    {[j \in 1 .. KeySize |-> 0], [j \in 1 .. KeySize |-> ByteBase - 1]}
    \cup {[j \in 1 .. KeySize |-> IF j = p THEN 1 ELSE 0] : p \in 1 .. KeySize}

FragLens == {0, 1, KeySize, RecordSize - 1}

Fill(b, n) == [j \in 1 .. n |-> b]

RECURSIVE Records(_, _)
Records(ks, b) ==
    IF ks = <<>> THEN <<>>
    ELSE ks[1] \o Fill(b, PayloadSize) \o Records(Tail(ks), b)

DiskFiles ==
    {Records(ks, b) \o Fill(b, n) :
        ks \in UNION {[1 .. m -> KeyBytes] : m \in 0 .. MaxRecords},
        b \in {0, ByteBase - 1}, n \in FragLens}

---------------------------------------------------------------------------
(* The generator's command lines: sys.argv, the count as characters. *)
Prog == "generate_input.py"
Path == "input.dat"

Modes == {"random", "sorted", "reverse", "ascending", "descending"}

SmallCounts == {Str(n) : n \in 0 .. MaxCount} \cup {<<"-", "1">>}

\* counts at and past the number of keys KeySize bytes hold
LargeCounts == {Str(MaxKey + 1), Str(MaxKey + 2)}

Argvs ==
    {<<Prog>>, <<Prog, Path>>, <<Prog, Path, <<"x">>>>}
    \cup {<<Prog, Path, c>> : c \in SmallCounts}
    \cup {<<Prog, Path, c, m>> : c \in SmallCounts, m \in Modes}
    \cup {<<Prog, Path, c, m>> : c \in LargeCounts, m \in {"sorted", "reverse"}}

---------------------------------------------------------------------------
Init ==
    /\ file \in DiskFiles
    /\ argv = <<>>
    /\ pc = "start"
    /\ num_records = 0
    /\ file_type = ""
    /\ fn = ""
    /\ i = 0
    /\ key = <<>>
    /\ data = <<>>
    /\ rng = 0
    /\ gout = <<>>
    /\ verifier =
        [vpc |-> "idle", pos |-> 0, prev_key |-> <<>>, record_num |-> 0,
         vkey |-> <<>>, reads |-> 0, vout |-> <<>>, exit_code |-> <<>>]

---------------------------------------------------------------------------
(* generate_input.py *)

\* the function the if/elif/else of __main__ calls for a type string
DispatchSpecNames(t) ==
    IF t = "ascending" THEN "generate_sorted_test_file"
    ELSE IF t = "descending" THEN "generate_reverse_sorted_test_file"
    ELSE "generate_test_file"

Dispatch(t) ==
    IF t = "sorted" THEN "generate_sorted_test_file"
    ELSE IF t = "reverse" THEN "generate_reverse_sorted_test_file"
    ELSE "generate_test_file"

RangeStartFromN(f, n) ==
    IF f = "generate_reverse_sorted_test_file" THEN n ELSE 0

\* first value of the function's range: range(n), or range(n - 1, -1, -1)
RangeStart(f, n) ==
    IF f = "generate_reverse_sorted_test_file" THEN n - 1 ELSE 0

\* whether the range still holds v: v < n going up, v > -1 going down
RangeHas(f, n, v) ==
    IF f = "generate_reverse_sorted_test_file" THEN v > 0 - 1 ELSE v < n

RangeStep(f, v) ==
    IF f = "generate_reverse_sorted_test_file" THEN v - 1 ELSE v + 1

(* __main__: import random, read sys.argv, call the generating function,   *)
(* which opens the file with 'wb' and so empties it.                       *)
GenMain ==
    /\ pc = "start"
    /\ vpc = "idle"
    /\ \E a \in Argvs, s \in Seeds :
        /\ argv' = a
        /\ rng' = s
        /\ IF Len(a) < 2
           THEN /\ pc' = "usage"
                /\ gout' = <<"usage">>
                /\ UNCHANGED <<file, num_records, file_type, fn, i>>
           ELSE IF Len(a) > 2 /\ ~IsInt(a[3])
           THEN /\ pc' = "ValueError"
                /\ UNCHANGED <<file, num_records, file_type, fn, i, gout>>
           ELSE LET n == IF Len(a) > 2 THEN IntOf(a[3]) ELSE DefaultNumRecords
                    t == IF Len(a) > 3 THEN a[4] ELSE "random"
                IN  /\ num_records' = n
                    /\ file_type' = t
                    /\ fn' = Dispatch(t)
                    /\ pc' = "loop"
                    /\ i' = RangeStart(Dispatch(t), n)
                    /\ file' = <<>>
                    /\ UNCHANGED gout
    /\ UNCHANGED <<key, data>>
    /\ UNCHANGED verifier

LoopKeyOneBased(f, s, v) ==
    IF f = "generate_test_file" THEN RandInt(s, 0, MaxKey) ELSE v + 1

\* the key of one iteration: random.randint(0, 0xFFFFFFFF), or i
LoopKey(f, s, v) ==
    IF f = "generate_test_file" THEN RandInt(s, 0, MaxKey) ELSE v

\* the generator state after the key is chosen
AfterKey(f, s) == IF f = "generate_test_file" THEN RngNext(s) ELSE s

(* One iteration of the for loop of the running function: choose the key,  *)
(* pack it, draw the payload, write the record.                            *)
GenWrite ==
    /\ pc = "loop"
    /\ RangeHas(fn, num_records, i)
    /\ PackOK(LoopKey(fn, rng, i))
    /\ key' = <<LoopKey(fn, rng, i)>>
    /\ data' = RandBytes(AfterKey(fn, rng), PayloadSize)
    /\ rng' = RngAdvance(AfterKey(fn, rng), PayloadSize)
    /\ file' = file \o Pack(LoopKey(fn, rng, i)) \o data'
    /\ i' = RangeStep(fn, i)
    /\ UNCHANGED <<argv, pc, num_records, file_type, fn, gout>>
    /\ UNCHANGED verifier

(* struct.pack raises struct.error: the with block closes the file, which  *)
(* keeps what was written, and the process ends.                           *)
GenPackError ==
    /\ pc = "loop"
    /\ RangeHas(fn, num_records, i)
    /\ ~PackOK(LoopKey(fn, rng, i))
    /\ key' = <<LoopKey(fn, rng, i)>>
    /\ rng' = AfterKey(fn, rng)
    /\ pc' = "struct.error"
    /\ UNCHANGED <<file, argv, num_records, file_type, fn, i, data, gout>>
    /\ UNCHANGED verifier

(* The range is exhausted: the file is closed, the summary printed. *)
GenReturn ==
    /\ pc = "loop"
    /\ ~RangeHas(fn, num_records, i)
    /\ pc' = "done"
    /\ gout' = IF fn = "generate_test_file"
               THEN <<fn, num_records, num_records * RecordSize>>
               ELSE <<fn>>
    /\ UNCHANGED <<file, argv, num_records, file_type, fn, i, key, data, rng>>
    /\ UNCHANGED verifier

---------------------------------------------------------------------------
(* verify_sort.py *)

\* f.read(n) at offset p: up to n bytes, fewer at the end of the file
Read(f, p, n) == SubSeq(f, p + 1, Min(p + n, Len(f)))

ShortReadOfKey(record) == Len(record) < KeySize

ShortReadInclusive(record) == Len(record) <= RecordSize

\* len(record) < 100
ShortRead(record) == Len(record) < RecordSize

RecordKeyLittleEndian(record) ==
    Unpack([j \in 1 .. KeySize |-> record[KeySize + 1 - j]])

\* struct.unpack('>I', record[:4])[0]
RecordKey(record) == Unpack(SubSeq(record, 1, KeySize))

OutOfOrderStrict(k, prev) == prev # <<>> /\ k <= prev[1]

\* prev_key is not None and key < prev_key
OutOfOrder(k, prev) == prev # <<>> /\ k < prev[1]

FailReportOneIndexed(st, k) ==
    <<"fail", st.record_num + 1, k, st.prev_key[1]>>

\* the line printed on a violation: record_num, key, prev_key
FailReport(st, k) == <<"fail", st.record_num, k, st.prev_key[1]>>

\* the line printed on success: record_num
PassReport(st) == <<"pass", st.record_num>>

AcceptFirstOnly(st, k) ==
    [st EXCEPT !.vkey = <<k>>,
               !.prev_key = IF st.prev_key = <<>> THEN <<k>> ELSE st.prev_key,
               !.record_num = st.record_num + 1]

\* prev_key = key; record_num += 1
Accept(st, k) ==
    [st EXCEPT !.vkey = <<k>>,
               !.prev_key = <<k>>,
               !.record_num = st.record_num + 1]

\* the state on entering the while loop: the file open at offset 0
ScanStart ==
    [vpc |-> "scan", pos |-> 0, prev_key |-> <<>>, record_num |-> 0,
     vkey |-> <<>>, reads |-> 0, vout |-> <<>>, exit_code |-> <<>>]

(* One iteration of the while loop on file f from state st: read, then     *)
(* either leave the loop and pass, or decode and fail, or decode and go on.*)
(* Returning True exits the process with 0, returning False with 1.        *)
Scan(f, st) ==
    LET record == Read(f, st.pos, RecordSize)
        st1 == [st EXCEPT !.pos = st.pos + Len(record), !.reads = st.reads + 1]
    IN  IF ShortRead(record)
        THEN [st1 EXCEPT !.vpc = "pass",
                         !.vout = PassReport(st),
                         !.exit_code = <<0>>]
        ELSE IF OutOfOrder(RecordKey(record), st.prev_key)
        THEN [st1 EXCEPT !.vpc = "fail",
                         !.vkey = <<RecordKey(record)>>,
                         !.vout = FailReport(st, RecordKey(record)),
                         !.exit_code = <<1>>]
        ELSE Accept(st1, RecordKey(record))

\* the whole loop, run to its end
RECURSIVE RunScan(_, _)
RunScan(f, st) == IF st.vpc # "scan" THEN st ELSE RunScan(f, Scan(f, st))

\* verify_sort(filename) on a file holding f
verify_sort(f) == RunScan(f, ScanStart)

(* __main__: check the argument count, call verify_sort, which opens the   *)
(* file.  No generator is writing the file.                                *)
VerifyMain ==
    /\ vpc = "idle"
    /\ pc # "loop"
    /\ \E argc \in 1 .. 3 :
        verifier' = IF argc # 2
                    THEN [verifier EXCEPT !.vpc = "usage",
                                          !.vout = <<"usage">>,
                                          !.exit_code = <<1>>]
                    ELSE ScanStart
    /\ UNCHANGED file
    /\ UNCHANGED gvars

VerifyStep ==
    /\ vpc = "scan"
    /\ verifier' = Scan(file, verifier)
    /\ UNCHANGED file
    /\ UNCHANGED gvars

---------------------------------------------------------------------------
Next ==
    \/ GenMain
    \/ GenWrite
    \/ GenPackError
    \/ GenReturn
    \/ VerifyMain
    \/ VerifyStep

Spec == Init /\ [][Next]_vars

(* The verifier alone, on any file found on disk.  Once started the loop   *)
(* runs on: the program is sequential and nothing suspends it.             *)
ScanNext ==
    \/ VerifyMain
    \/ VerifyStep

ScanSpec == Init /\ [][ScanNext]_vars /\ WF_vars(VerifyStep)

---------------------------------------------------------------------------
(* The file format, as the properties below read it: record n (from 0)     *)
(* occupies bytes [100 n, 100 n + 100), its key the first four, big-endian.*)

\* floor(L / 100): the complete records of f
NumComplete(f) == Len(f) \div RecordSize

\* the value of the bytes b, most significant first
BigEndian(b) ==
    LET RECURSIVE Sum(_)
        Sum(j) == IF j = 0 THEN 0
                  ELSE Sum(j - 1) + b[j] * ByteBase ^ (Len(b) - j)
    IN  Sum(Len(b))

KeyAt(f, n) == BigEndian(SubSeq(f, n * RecordSize + 1, n * RecordSize + KeySize))

PayloadAt(f, n) == SubSeq(f, n * RecordSize + KeySize + 1, (n + 1) * RecordSize)

\* key[n] >= key[n-1] for every n in 1..m-1
NonDecreasingTo(f, m) == \A n \in 1 .. (m - 1) : KeyAt(f, n) >= KeyAt(f, n - 1)

NonDecreasing(f) == NonDecreasingTo(f, NumComplete(f))

\* f without its final Len(f) mod 100 bytes
Truncated(f) == SubSeq(f, 1, NumComplete(f) * RecordSize)

Finished == vpc \in {"pass", "fail"}

\* the number of keys KeySize bytes hold: 2^32 in the program
KeyLimit == MaxKey + 1

\* exactly m records, record n holding key n
AscendingFile(f, m) ==
    /\ Len(f) = m * RecordSize
    /\ \A n \in 0 .. (m - 1) : KeyAt(f, n) = n

\* exactly m records, record n holding key top - n
DescendingFile(f, top, m) ==
    /\ Len(f) = m * RecordSize
    /\ \A n \in 0 .. (m - 1) : KeyAt(f, n) = top - n

Ended == pc \in {"done", "struct.error"}

---------------------------------------------------------------------------
(* C1: verify_sort passes exactly when the keys of the complete records,   *)
(* in file order, never decrease: a pass means non-decreasing keys, a fail *)
(* means some key is below the one before it; the exit status is 0 on a    *)
(* pass and 1 on a fail.                                                   *)
C1_PassIffNonDecreasing ==
    /\ vpc = "pass" => NonDecreasing(file) /\ exit_code = <<0>>
    /\ vpc = "fail" => ~NonDecreasing(file) /\ exit_code = <<1>>

\* a pass on a file whose keys repeat and then rise
C1_Witness ==
    /\ vpc = "pass"
    /\ NumComplete(file) >= 3
    /\ KeyAt(file, 0) = KeyAt(file, 1)
    /\ KeyAt(file, 1) < KeyAt(file, 2)

(* C2: on a fail the position printed is the least n >= 1 with             *)
(* key[n] < key[n-1], printed with key[n] and key[n-1]; exactly the records*)
(* 0..n have been read, and the scan takes no further step.                *)
C2_FirstViolationReported ==
    vpc = "fail" =>
        /\ record_num \in 1 .. (NumComplete(file) - 1)
        /\ KeyAt(file, record_num) < KeyAt(file, record_num - 1)
        /\ NonDecreasingTo(file, record_num)
        /\ vout = <<"fail", record_num, KeyAt(file, record_num),
                    KeyAt(file, record_num - 1)>>
        /\ pos = (record_num + 1) * RecordSize
        /\ reads = record_num + 1
        /\ ~ENABLED VerifyStep

\* a fail past record 1, with bytes of the file left unread after it
C2_Witness ==
    /\ vpc = "fail"
    /\ record_num = 2
    /\ Len(file) > pos

(* C3: on a file whose length is no multiple of 100 the verdict, the count *)
(* printed on a pass and the line printed are those of verify_sort on the  *)
(* file cut to its complete records; the count is floor(L / 100).          *)
C3_TrailingFragmentIgnored ==
    (Finished /\ Len(file) % RecordSize # 0) =>
        LET t == verify_sort(Truncated(file))
        IN  /\ vpc = t.vpc
            /\ vout = t.vout
            /\ exit_code = t.exit_code
            /\ vpc = "pass" => vout = <<"pass", NumComplete(file)>>

\* a pass over two records followed by a fragment long enough to hold a key
\* that is below the last record's
C3_Witness ==
    /\ vpc = "pass"
    /\ NumComplete(file) = 2
    /\ Len(file) % RecordSize >= KeySize
    /\ BigEndian(SubSeq(file, 2 * RecordSize + 1, 2 * RecordSize + KeySize))
           < KeyAt(file, 1)

(* C10: while the loop runs, record_num counts the records accepted, all   *)
(* of them read and in non-decreasing key order, and prev_key is None      *)
(* exactly when record_num = 0 and otherwise the key of record             *)
(* record_num - 1; the loop makes at most floor(L/100) + 1 reads, a pass   *)
(* prints floor(L/100), and every scan that starts ends in pass or fail.   *)
C10_Inv ==
    /\ vpc = "scan" =>
        /\ record_num <= NumComplete(file)
        /\ reads = record_num
        /\ pos = record_num * RecordSize
        /\ NonDecreasingTo(file, record_num)
        /\ (prev_key = <<>>) <=> (record_num = 0)
        /\ record_num > 0 => prev_key = <<KeyAt(file, record_num - 1)>>
    /\ Finished => reads <= NumComplete(file) + 1
    /\ vpc = "pass" => vout = <<"pass", NumComplete(file)>>

C10_LoopInvariant == [](C10_Inv) /\ ((vpc = "scan") ~> Finished)

\* the loop in mid-scan, two records accepted and more to read
C10_Witness ==
    /\ vpc = "scan"
    /\ record_num = 2
    /\ NumComplete(file) > 2

(* C4, as stated: ascending generation with any N >= 0 ends having written *)
(* exactly N records, record n holding key n.                              *)
C4_AnyCount ==
    (fn = "generate_sorted_test_file" /\ num_records >= 0 /\ Ended) =>
        pc = "done" /\ AscendingFile(file, num_records)

(* C4, amended: for 0 <= N <= 2^32 ascending generation never raises,      *)
(* writes record i with key i at iteration i, and ends with exactly N      *)
(* records; past that struct.pack raises at i = 2^32, after 2^32 records.  *)
C4_Ascending ==
    fn = "generate_sorted_test_file" =>
        /\ pc = "loop" => i >= 0 /\ AscendingFile(file, i)
        /\ (num_records >= 0 /\ num_records <= KeyLimit) =>
              /\ pc \in {"loop", "done"}
              /\ pc = "loop" => i <= num_records
              /\ pc = "done" => AscendingFile(file, num_records)
        /\ (num_records > KeyLimit /\ Ended) =>
              pc = "struct.error" /\ AscendingFile(file, KeyLimit)

\* ascending generation done at the largest count the key holds
C4_Witness ==
    /\ fn = "generate_sorted_test_file"
    /\ pc = "done"
    /\ num_records = KeyLimit
    /\ KeyAt(file, num_records - 1) = MaxKey

(* C5, as stated: descending generation with any N >= 0 ends having        *)
(* written exactly N records, record n holding key N - 1 - n.              *)
C5_AnyCount ==
    (fn = "generate_reverse_sorted_test_file" /\ num_records >= 0 /\ Ended) =>
        pc = "done" /\ DescendingFile(file, num_records - 1, num_records)

(* C5, amended: for 0 <= N <= 2^32 descending generation never raises,     *)
(* writes record n with key N - 1 - n, and ends with exactly N records;    *)
(* past that struct.pack raises on the first key and the file stays empty. *)
C5_Descending ==
    fn = "generate_reverse_sorted_test_file" =>
        /\ (num_records >= 0 /\ num_records <= KeyLimit) =>
              /\ pc \in {"loop", "done"}
              /\ pc = "loop" =>
                    /\ i >= 0 - 1 /\ i < num_records
                    /\ DescendingFile(file, num_records - 1, num_records - 1 - i)
              /\ pc = "done" =>
                    DescendingFile(file, num_records - 1, num_records)
        /\ (num_records > KeyLimit /\ Ended) =>
              pc = "struct.error" /\ file = <<>>

\* descending generation done at the largest count the key holds
C5_Witness ==
    /\ fn = "generate_reverse_sorted_test_file"
    /\ pc = "done"
    /\ num_records = KeyLimit
    /\ KeyAt(file, 0) = MaxKey
    /\ KeyAt(file, num_records - 1) = 0

(* C6, as stated: the verifier run on the file of ascending generation     *)
(* with any N >= 0 passes and prints N; with N = 0 the file is empty.      *)
C6_AnyCount ==
    (fn = "generate_sorted_test_file" /\ num_records >= 0) =>
        /\ Finished => vout = <<"pass", num_records>> /\ exit_code = <<0>>
        /\ (num_records = 0 /\ pc # "loop") => pc = "done" /\ file = <<>>

(* C6, amended: for 0 <= N <= 2^32 the verifier run on the file of         *)
(* ascending generation passes and prints N, and with N = 0 the generator  *)
(* ends normally on an empty file; past 2^32 the generator has raised and  *)
(* the verifier passes on the 2^32 records written.                        *)
C6_AscendingVerifies ==
    fn = "generate_sorted_test_file" =>
        /\ (num_records >= 0 /\ num_records <= KeyLimit /\ Finished) =>
              vout = <<"pass", num_records>> /\ exit_code = <<0>>
        /\ (num_records = 0 /\ pc # "loop") => pc = "done" /\ file = <<>>
        /\ (num_records > KeyLimit /\ Finished) => vout = <<"pass", KeyLimit>>

\* a pass over the ascending file of the largest count the key holds
C6_Witness ==
    /\ fn = "generate_sorted_test_file"
    /\ vpc = "pass"
    /\ num_records = KeyLimit
    /\ reads = num_records + 1

(* C7, as stated: the verifier run on the file of descending generation    *)
(* with any N >= 2 fails at record 1 with key N - 2 below key N - 1; with  *)
(* N = 1 it passes and prints 1.                                           *)
C7_AnyCount ==
    (fn = "generate_reverse_sorted_test_file" /\ Finished) =>
        /\ num_records >= 2 =>
              vout = <<"fail", 1, num_records - 2, num_records - 1>>
        /\ num_records = 1 => vout = <<"pass", 1>>

(* C7, amended: for 2 <= N <= 2^32 the verifier run on the file of         *)
(* descending generation fails at record 1 with key N - 2 below key N - 1  *)
(* and exits with 1; with N = 1 it passes and prints 1; past 2^32 the      *)
(* generator has raised and the verifier passes on the empty file.         *)
C7_DescendingFails ==
    (fn = "generate_reverse_sorted_test_file" /\ Finished) =>
        /\ (num_records >= 2 /\ num_records <= KeyLimit) =>
              /\ vout = <<"fail", 1, num_records - 2, num_records - 1>>
              /\ exit_code = <<1>>
        /\ num_records = 1 => vout = <<"pass", 1>>
        /\ num_records > KeyLimit => vout = <<"pass", 0>>

\* N = 5: fail at record 1, key 3 below previous key 4
C7_Witness ==
    /\ fn = "generate_reverse_sorted_test_file"
    /\ num_records = 5
    /\ vout = <<"fail", 1, 3, 4>>

(* C8: every record the generator writes is 100 bytes, its first four the  *)
(* key most significant byte first and the rest the payload drawn; the key *)
(* the verifier decodes from the record is the key written.                *)
C8_RoundTrip ==
    (key # <<>> /\ pc \in {"loop", "done"}) =>
        LET n == NumComplete(file) - 1
            record == SubSeq(file, n * RecordSize + 1, (n + 1) * RecordSize)
        IN  /\ n >= 0
            /\ Len(file) = (n + 1) * RecordSize
            /\ key[1] \in 0 .. MaxKey
            /\ Len(data) = PayloadSize
            /\ \A j \in 1 .. PayloadSize : data[j] \in Byte
            /\ RecordKey(record) = key[1]
            /\ KeyAt(file, n) = key[1]
            /\ PayloadAt(file, n) = data

\* a random key whose four bytes are not a palindrome, top byte set
C8_Witness ==
    /\ fn = "generate_test_file"
    /\ pc = "done"
    /\ key # <<>>
    /\ key[1] >= ByteBase ^ (KeySize - 1)
    /\ Pack(key[1])[1] # Pack(key[1])[KeySize]
    /\ Pack(key[1])[2] # Pack(key[1])[KeySize - 1]

(* C9, as stated: the mode strings are the policy names, so 'ascending'    *)
(* yields keys 0..N-1 and 'descending' keys N-1..0.                        *)
C9_ModeNamesArePolicyNames ==
    (pc = "done" /\ Len(argv) > 3 /\ num_records >= 0) =>
        /\ argv[4] = "ascending" => AscendingFile(file, num_records)
        /\ argv[4] = "descending" =>
              DescendingFile(file, num_records - 1, num_records)

(* C9, amended: the command line is <path> [count=100] [type]; type        *)
(* 'sorted' yields keys 0..N-1 in order, 'reverse' yields keys N-1..0, and *)
(* any other type ('random', 'ascending', 'descending', ...) or none is    *)
(* the random policy; with no count N is 100.                              *)
C9_CommandLine ==
    pc \in {"loop", "done", "struct.error"} =>
        /\ Len(argv) >= 2
        /\ Len(argv) = 2 => num_records = DefaultNumRecords
        /\ Len(argv) <= 3 => fn = "generate_test_file"
        /\ (Len(argv) > 3 /\ argv[4] = "sorted") =>
              /\ fn = "generate_sorted_test_file"
              /\ (pc = "done" /\ num_records >= 0) =>
                    AscendingFile(file, num_records)
        /\ (Len(argv) > 3 /\ argv[4] = "reverse") =>
              /\ fn = "generate_reverse_sorted_test_file"
              /\ (pc = "done" /\ num_records >= 0) =>
                    DescendingFile(file, num_records - 1, num_records)
        /\ (Len(argv) > 3 /\ argv[4] \notin {"sorted", "reverse"}) =>
              fn = "generate_test_file"
        /\ (fn = "generate_test_file" /\ pc = "done" /\ num_records >= 0) =>
              /\ Len(file) = num_records * RecordSize
              /\ gout = <<fn, num_records, num_records * RecordSize>>

\* type 'descending' on the command line ends in the random generator
C9_Witness ==
    /\ pc = "done"
    /\ Len(argv) > 3
    /\ argv[4] = "descending"
    /\ fn = "generate_test_file"
    /\ num_records = 2
    /\ KeyAt(file, 0) < KeyAt(file, 1)

=============================================================================
